---------------------------- MODULE Spec2Model ----------------------------
(***************************************************************************)
(* Model of the batch scheduler of FAL.ai-cli:                             *)
(*   src/export_backup/core/launcher/batch_processor.py                    *)
(* BatchJob (the job state machine) and BatchProcessor (add_job,           *)
(* remove_job, process_batch, _process_single_job, _save_batch_data),      *)
(* with the two collaborators it imports from src/core/launcher:           *)
(* CostCalculator.calculate_cost (cost_calculator.py) and the progress     *)
(* trackers (progress_tracker.py), the latter modelled by themselves.      *)
(*                                                                         *)
(* process_batch and _process_single_job are coroutines on one asyncio     *)
(* event loop.  The loop is modelled by its FIFO ready queue (`ready`) and  *)
(* by `cur`, the task that holds the loop between two suspension points.   *)
(* A coroutine is cut into one action per stretch between suspension       *)
(* points (semaphore acquire, generator call, backoff sleep); a stretch    *)
(* that makes two job transitions is cut once more so that every job       *)
(* transition is a step of its own.                                        *)
(*                                                                         *)
(* Library semantics assumed (CPython 3.11 and later):                     *)
(* asyncio.CancelledError derives from BaseException, so `except           *)
(* Exception` does not catch it; asyncio.Semaphore hands a released slot   *)
(* to its waiters in FIFO order; tasks made by create_task first run in    *)
(* creation order.                                                         *)
(*                                                                         *)
(* Environment assumed: one process_batch at a time per processor (the     *)
(* spec's single orchestrating task), and no further process_batch on a    *)
(* processor after one has raised out to its caller.  The process may die  *)
(* at any moment, also inside a save; a new processor then loads the       *)
(* ledger file the old one left behind.                                    *)
(***************************************************************************)
EXTENDS Integers, Sequences, FiniteSets, TLC

\* ------------------------------------------------------------------ bounds
\* Most jobs ever submitted to one processor.
MaxJobs == 2
\* Largest max_concurrent the processor is constructed with.
MaxConcurrent == 3
\* Most process restarts in one behaviour.
MaxRestarts == 1

\* BatchJob.max_retries default.
DefaultMaxRetries == 2

\* Priorities submitted (BatchJob.priority: 1-5, 5 being highest).
Priorities == {1, 5}

\* The generator's view of a job's model: a model without an endpoint makes
\* _generate_video_for_job raise ValueError at every attempt.
Models == {"known", "unknown"}

JobIds == 1..MaxJobs

\* datetime.now() counts in ticks; the job id keeps the time to the second
\* only (strftime('%Y%m%d_%H%M%S')), created_at keeps it whole.
TicksPerSecond == 2

\* Prompts offered to add_job, as sequences of characters.
Prompts == {<<>>, <<" ">>, <<" ", "a">>}

\* The parameters dictionary of a job, by what JSON makes of it: "json" comes
\* back from the ledger file as it was, "tuple" holds a tuple (or a key that
\* is no string), "list" is what "tuple" comes back as, "object" holds a
\* value json.dump cannot write (a Path, say).
Params == {"json", "tuple", "list", "object"}

\* The process_batch coroutine's entry in the ready queue.
RunTask == 0

VARIABLES
    max_concurrent,   \* BatchProcessor.max_concurrent
    restarts,         \* processors constructed on this ledger file so far
    stats,            \* BatchProcessor.stats
    outcome,          \* what the latest add_job or process_batch call
                      \* returned or raised
    callbacks,        \* per job, the callback last invoked with it
    job,              \* the BatchJob objects, in creation order
    jobs,             \* BatchProcessor.jobs (indices into job)
    completed_jobs,   \* BatchProcessor.completed_jobs
    failed_jobs,      \* BatchProcessor.failed_jobs
    active_jobs,      \* keys of BatchProcessor.active_jobs
    clock,            \* a time datetime.now() has reached
    disk,             \* the ledger file as last written
    runPc,            \* where process_batch is
    auto_retry,       \* process_batch's auto_retry argument
    tasks,            \* process_batch's tasks list (one per pending job)
    completed_count,  \* process_batch's completed_count
    doneq,            \* finished tasks as_completed has not yet yielded
    sem,              \* the run's asyncio.Semaphore
    ready,            \* the event loop's ready queue
    tpc,              \* where each job's task is
    depth,            \* nesting depth of _process_single_job = slots held
    cur,              \* the task running between two suspension points
    attempts,         \* job.start() calls per job (execution attempts)
    retry_delay,      \* per job, the seconds of its latest backoff sleep
    stages,              \* AdvancedProgressTracker.stages
    current_stage_index, \* AdvancedProgressTracker.current_stage_index
    overall_status       \* AdvancedProgressTracker.overall_status

vars == <<max_concurrent, restarts, stats, outcome, callbacks, job, jobs, completed_jobs, failed_jobs, active_jobs,
          clock, disk, runPc, auto_retry, tasks, completed_count, doneq, sem,
          ready, tpc, depth, cur, attempts, retry_delay, stages,
          current_stage_index, overall_status>>

procVars == <<max_concurrent, restarts>>
trackerVars == <<stages, current_stage_index, overall_status>>
apiVars == <<stats, outcome, callbacks>>
runVars == <<runPc, auto_retry, tasks, completed_count, doneq>>
loopVars == <<sem, ready, tpc, depth, cur>>

\* ------------------------------------------------------------ sequences
RECURSIVE SelectSeqIdx(_, _, _)
\* The elements of s (from index i on) that are in the set keep.
SelectSeqIdx(s, i, keep) ==
    IF i > Len(s) THEN <<>>
    ELSE IF s[i] \in keep THEN <<s[i]>> \o SelectSeqIdx(s, i + 1, keep)
    ELSE SelectSeqIdx(s, i + 1, keep)

Range(s) == {s[i] : i \in 1..Len(s)}

\* s without its element at index i (list.pop(i)).
RemoveAt(s, i) == SubSeq(s, 1, i - 1) \o SubSeq(s, i + 1, Len(s))

\* s without the elements in the set drop.
Without(s, drop) == SelectSeqIdx(s, 1, Range(s) \ drop)

\* ------------------------------------------------------------- BatchJob
\* A job id: the second of its creation and len(self.jobs) at that time
\* (line 198).
JobId(now, n) == <<now \div TicksPerSecond, n>>

\* CostCalculator.model_pricing, in cents: the entry of a model the table
\* knows (kling_21_standard); the model "unknown" has no entry, as it has no
\* endpoint.
model_pricing == [known |-> [cost_per_second |-> 5, max_duration |-> 10]]

\* dict.get(key, default).
Get(d, key, default) == IF key \in DOMAIN d THEN d[key] ELSE default

\* A cost calculator that prices a model it does not know as the table's
\* first model.
calculate_cost_DefaultPrice(model, duration) ==
    LET info == Get(model_pricing, model, model_pricing.known)
        actual_duration == IF duration < info.max_duration THEN duration
                           ELSE info.max_duration
    IN  [model |-> model, duration |-> actual_duration,
         total_cost |-> info.cost_per_second * actual_duration,
         duration_warning |-> duration > info.max_duration]

\* CostCalculator.calculate_cost(model, duration): the dictionary it returns.
calculate_cost(model, duration) ==
    IF model \notin DOMAIN model_pricing
    THEN [error |-> TRUE, cost |-> 0, model |-> model, duration |-> duration]
    ELSE LET info == model_pricing[model]
             actual_duration == IF duration < info.max_duration THEN duration
                                ELSE info.max_duration
         IN  [model |-> model, duration |-> actual_duration,
              total_cost |-> info.cost_per_second * actual_duration,
              duration_warning |-> duration > info.max_duration]

\* parameters.get("duration", 5) of a parameters dictionary without a
\* "duration" entry (line 202).
DefaultDuration == 5

\* BatchJob(...) as add_job builds it (lines 201-215); started, result and
\* error_message tell whether started_at, result and error_message are set
\* (not None).
NewJob(id, p, m, params, now) ==
    [id |-> id, priority |-> p, model |-> m, parameters |-> params,
     estimated_cost |-> Get(calculate_cost(m, DefaultDuration), "total_cost", 0),
     status |-> "pending",
     created_at |-> now, started |-> FALSE, result |-> FALSE,
     error_message |-> FALSE, retry_count |-> 0,
     max_retries |-> DefaultMaxRetries]

JobStart(r) == [r EXCEPT !.status = "processing", !.started = TRUE]

JobComplete(r) == [r EXCEPT !.status = "completed", !.result = TRUE]

JobFail(r) == [r EXCEPT !.status = "failed", !.error_message = TRUE]

JobCancel(r) == [r EXCEPT !.status = "cancelled"]

CanRetry(r) == r.status = "failed" /\ r.retry_count < r.max_retries

JobRetry(r) ==
    IF CanRetry(r)
    THEN [r EXCEPT !.retry_count = @ + 1, !.status = "pending", !.started = FALSE,
                   !.error_message = FALSE]
    ELSE r


\* ------------------------------------------------- the queue's sort order
\* The order an ascending sort (reverse=True left out) would use.
KeyLess_Ascending(a, b) ==
    \/ a.priority > b.priority
    \/ a.priority = b.priority /\ a.created_at > b.created_at

\* Python's tuple order on the sort key (x.priority, x.created_at).
KeyLess(a, b) ==
    \/ a.priority < b.priority
    \/ a.priority = b.priority /\ a.created_at < b.created_at

RECURSIVE InsertDesc(_, _, _)
\* x put into the descending list s behind every element whose key is not
\* smaller than x's: one insertion of a stable sort in reverse order.
InsertDesc(s, x, J) ==
    IF s = <<>> THEN <<x>>
    ELSE IF KeyLess(J[Head(s)], J[x]) THEN <<x>> \o s
    ELSE <<Head(s)>> \o InsertDesc(Tail(s), x, J)

RECURSIVE SortJobs(_, _)
\* list.sort(key=lambda x: (x.priority, x.created_at), reverse=True): a stable
\* sort, largest key first, equal keys in their order in s.
SortJobs(s, J) ==
    IF s = <<>> THEN <<>>
    ELSE InsertDesc(SortJobs(SubSeq(s, 1, Len(s) - 1), J), s[Len(s)], J)

\* -------------------------------------------------------- the ledger file
\* self.stats as __init__ sets it (the counters; cost and time sums are left
\* out).
NoStats == [total_jobs |-> 0, completed_jobs |-> 0, failed_jobs |-> 0,
            cancelled_jobs |-> 0]

\* json.dump raises TypeError at the job's parameters.
Unserialisable(r) == r.parameters = "object"

\* The job as json.dump writes it and json.load reads it.
Stored(r) ==
    [r EXCEPT !.parameters = IF @ = "tuple" THEN "list" ELSE @]

\* open(self.batch_file, 'w') has emptied the file and json.dump has written
\* only a part of the text when the process dies, or when json.dump raises
\* (line 184 swallows the exception): no JSON document.
TornFile == [order |-> <<>>, job |-> <<>>, stats |-> NoStats, whole |-> FALSE,
             bad |-> 0]

\* The file _save_batch_data writes: the jobs of the three lists in that
\* order, each with its fields, and the statistics.  whole: the text is the
\* complete JSON document; bad: the position in "jobs" of the first entry
\* BatchJob(**job_data) cannot build (one past the last entry: the "stats"
\* value is no dictionary), 0 if there is none.
Snapshot(J, js, cs, fs, st) ==
    IF \E j \in Range(js \o cs \o fs) : Unserialisable(J[j])
    THEN TornFile
    ELSE [order |-> js \o cs \o fs, job |-> [j \in 1..Len(J) |-> Stored(J[j])],
          stats |-> st, whole |-> TRUE, bad |-> 0]

\* The file f with its k-th part damaged from outside.
Damaged(f, k) == [f EXCEPT !.bad = k]

\* A loader that takes the stored job as it is.
LoadedJob_AsStored(r) == r

\* Lines 149-160: the job built from a stored entry; one stored as processing
\* becomes pending with started_at cleared.
LoadedJob(r) ==
    IF r.status = "processing"
    THEN [r EXCEPT !.status = "pending", !.started = FALSE]
    ELSE r

\* The entries _load_batch_data gets through before it returns or an
\* exception ends it (lines 142-148, 166): none of a text json.load rejects.
Readable(f) ==
    IF ~f.whole THEN <<>>
    ELSE IF f.bad = 0 THEN f.order
    ELSE SubSeq(f.order, 1, f.bad - 1)

\* _load_batch_data on file f in a new processor: the job objects (J keeps
\* the objects of the old process that f does not hold, for reference), the
\* three lists and the statistics.
Load(f, J) ==
    LET rd == Readable(f)
        L == [j \in 1..Len(J) |->
                IF j \in Range(rd) THEN LoadedJob(f.job[j]) ELSE J[j]]
        having(st) == SelectSeqIdx(rd, 1, {j \in Range(rd) : L[j].status \in st})
    IN  [job |-> L,
         jobs |-> SelectSeqIdx(rd, 1, {j \in Range(rd) :
                     L[j].status \notin {"completed", "failed", "cancelled"}}),
         completed_jobs |-> having({"completed"}),
         failed_jobs |-> having({"failed", "cancelled"}),
         stats |-> IF f.whole /\ f.bad = 0 THEN f.stats ELSE NoStats]

\* _update_batch_statistics (lines 638-643).
BatchStatistics(J, js, cs, fs) ==
    [total_jobs |-> Len(js \o cs \o fs),
     completed_jobs |-> Len(cs),
     failed_jobs |-> Len(fs),
     cancelled_jobs |-> Cardinality({j \in Range(js \o cs \o fs) :
                                        J[j].status = "cancelled"})]

\* get_queue_status (lines 710-718): the counts it returns.
QueueStatus(J, js, cs, fs) ==
    [total_jobs |-> Len(js \o cs \o fs),
     pending |-> Cardinality({j \in Range(js) : J[j].status = "pending"}),
     processing |-> Cardinality({j \in Range(js) : J[j].status = "processing"}),
     completed |-> Len(cs),
     failed |-> Len(fs),
     cancelled |-> Cardinality({j \in Range(js \o cs \o fs) :
                                   J[j].status = "cancelled"})]

\* The report part of an outcome that carries no report.
NoReport ==
    [message |-> "none", total_jobs |-> 0, completed |-> 0, failed |-> 0,
     cancelled |-> 0, counted |-> {}]

\* The early returns of process_batch (lines 444-449).
Message(text) == [NoReport EXCEPT !.message = text]

\* _generate_batch_report (lines 654-691): the summary's counts, and the jobs
\* that enter the cost analysis and the model breakdown.
BatchReport(J, js, cs, fs) ==
    [message |-> "report",
     total_jobs |-> Len(js \o cs \o fs),
     completed |-> Len(cs),
     failed |-> Len(fs),
     cancelled |-> Cardinality({j \in Range(js \o cs \o fs) :
                                   J[j].status = "cancelled"}),
     counted |-> Range(js \o cs \o fs)]

RECURSIVE Strip(_)
\* What a call did: the operation, its arguments, the exception it raised
\* ("none": it returned; "pending": it has not returned yet) and the report
\* it returned.
Outcome(op, args, raised, report) ==
    [op |-> op, args |-> args, raised |-> raised, report |-> report]

\* str.strip() on a sequence of characters (the blank is the whitespace).
Strip(s) ==
    IF s = <<>> THEN <<>>
    ELSE IF Head(s) = " " THEN Strip(Tail(s))
    ELSE IF s[Len(s)] = " " THEN Strip(SubSeq(s, 1, Len(s) - 1))
    ELSE s

\* ------------------------------------------------------ asyncio.Semaphore
\* value: free slots; waiters: tasks in acquire(), oldest first; granted: the
\* waiters whose future release() has already set (they own a slot and are
\* in the ready queue).
\* A semaphore created with one slot too many.
NewSemaphore_ExtraSlot(n)== [value |-> n + 1, waiters |-> <<>>, granted |-> {}]

\* asyncio.Semaphore(n) (line 475: n = self.max_concurrent).
NewSemaphore(n) == [value |-> n, waiters |-> <<>>, granted |-> {}]

\* Semaphore.locked(): no free slot, or somebody is already waiting.
Locked(s) == s.value = 0 \/ s.waiters # <<>>

\* The oldest waiter not yet granted, or 0.
NextWaiter(s) ==
    LET idx == {i \in 1..Len(s.waiters) : s.waiters[i] \notin s.granted}
    IN  IF idx = {} THEN 0
        ELSE s.waiters[CHOOSE i \in idx : \A k \in idx : i <= k]

\* Semaphore._wake_up_next(): hand a slot to the oldest waiter.
WakeUpNext(s) ==
    IF NextWaiter(s) = 0 THEN s
    ELSE [s EXCEPT !.value = @ - 1, !.granted = @ \cup {NextWaiter(s)}]

\* Semaphore.release().
Release(s) == WakeUpNext([s EXCEPT !.value = @ + 1])

RECURSIVE ReleaseN(_, _)
\* Leaving n nested `async with semaphore` blocks.
ReleaseN(s, n) == IF n = 0 THEN s ELSE ReleaseN(Release(s), n - 1)

\* The waiters granted by going from s to t, oldest first: release() sets
\* their futures in that order, so they enter the ready queue in that order.
NewlyGranted(s, t) == SelectSeqIdx(t.waiters, 1, t.granted \ s.granted)

\* A granted waiter resumes in acquire(): it leaves the waiter list.
Resumed(s, j) ==
    [s EXCEPT !.waiters = Without(@, {j}), !.granted = @ \ {j}]


RECURSIVE WakeWhileFree(_)
\* The end of acquire(): `while self._value > 0: if not self._wake_up_next(): break`.
WakeWhileFree(s) ==
    IF s.value > 0 /\ NextWaiter(s) # 0 THEN WakeWhileFree(WakeUpNext(s)) ELSE s

\* ------------------------------------------------------------- the loop
\* as_completed: a finished task wakes the waiting process_batch.
WakeRun(r, pc) ==
    IF pc = "wait" /\ RunTask \notin Range(r) THEN Append(r, RunTask) ELSE r

\* A process_batch that takes every job of self.jobs for pending.
PendingJobs_All(js, J) == js

\* The pending subset of self.jobs, in list order (process_batch, line 447).
PendingJobs(js, J) == SelectSeqIdx(js, 1, {j \in Range(js) : J[j].status = "pending"})

\* The first task in the done queue that ended cancelled, or 0.
FirstCancelled(q, pc) ==
    LET idx == {i \in 1..Len(q) : pc[q[i]] = "cancelled"}
    IN  IF idx = {} THEN 0 ELSE CHOOSE i \in idx : \A k \in idx : i <= k

\* --------------------------------------------------------- ProgressStage
\* src/core/launcher/progress_tracker.py.  Progress is counted in percent
\* (1.0 is 100); a message is "" or a text.
\* ProgressStage(name, description, estimated_duration).
ProgressStage(name) ==
    [name |-> name, status |-> "pending", progress |-> 0, message |-> ""]

\* ProgressStage.start.
StageStart(s) == [s EXCEPT !.status = "active"]

\* ProgressStage.complete(message).
StageComplete(s, message) ==
    [s EXCEPT !.status = "completed", !.progress = 100,
              !.message = IF message # "" THEN message ELSE @]

\* ProgressStage.fail(error_message).
StageFail(s, error_message) ==
    [s EXCEPT !.status = "failed",
              !.message = IF error_message # "" THEN error_message ELSE @]

\* ProgressStage.update_progress(progress, message):
\* max(0.0, min(1.0, progress)).
StageUpdate(s, progress, message) ==
    LET capped == IF progress < 100 THEN progress ELSE 100
    IN  [s EXCEPT !.progress = IF capped > 0 THEN capped ELSE 0,
                  !.message = IF message # "" THEN message ELSE @]

\* AdvancedProgressTracker.__init__: no stage, no current stage.
TrackerConstructed ==
    /\ stages = <<>>
    /\ current_stage_index = -1
    /\ overall_status = "not_started"

\* ------------------------------------------------------------------ Init
\* A processor constructed with no ledger file present (Snapshot of the
\* empty ledger stands for the absent file: both load as nothing).
Constructed ==
    /\ restarts = 0
    /\ callbacks = [j \in JobIds |-> "none"]
    /\ stats = NoStats
    /\ outcome = Outcome("none", <<>>, "none", NoReport)
    /\ job = <<>>
    /\ jobs = <<>>
    /\ completed_jobs = <<>>
    /\ failed_jobs = <<>>
    /\ active_jobs = {}
    /\ clock = 0
    /\ disk = Snapshot(<<>>, <<>>, <<>>, <<>>, NoStats)
    /\ runPc = "idle"
    /\ auto_retry = TRUE
    /\ tasks = <<>>
    /\ completed_count = 0
    /\ doneq = <<>>
    /\ sem = NewSemaphore(0)
    /\ ready = <<>>
    /\ tpc = [j \in JobIds |-> "none"]
    /\ depth = [j \in JobIds |-> 0]
    /\ cur = 0
    /\ attempts = [j \in JobIds |-> 0]
    /\ retry_delay = [j \in JobIds |-> 0]
    /\ TrackerConstructed

\* BatchProcessor(max_concurrent) with a limit of at least 1.
Init == max_concurrent \in 1..MaxConcurrent /\ Constructed

\* ------------------------------------------------------ BatchProcessor API
\* An add_job that checks nothing.
Rejection_None(exists, prompt) == "none"

\* Lines 191-195: the exception add_job raises for its inputs (exists: the
\* image path names an existing file), "none" if it accepts them.
Rejection(exists, prompt) ==
    IF ~exists THEN "FileNotFoundError"
    ELSE IF Strip(prompt) = <<>> THEN "ValueError"
    ELSE "none"

\* add_job(image_path, prompt, model, parameters, priority) called at time now.
add_job(exists, prompt, p, m, params, now) ==
    /\ cur = 0
    /\ outcome' = Outcome("add_job", <<exists, prompt>>, Rejection(exists, prompt),
                          NoReport)
    /\ IF Rejection(exists, prompt) # "none"
       THEN UNCHANGED <<job, jobs, stats, disk, clock>>
       ELSE /\ Len(job) < MaxJobs
            /\ LET n == Len(job) + 1
                   J == Append(job, NewJob(JobId(now, Len(jobs)), p, m, params, now))
                   js == SortJobs(Append(jobs, n), J)
                   st == [stats EXCEPT !.total_jobs = @ + 1]
               IN  /\ job' = J
                   /\ jobs' = js
                   /\ stats' = st
                   /\ disk' = Snapshot(J, js, completed_jobs, failed_jobs, st)
            /\ clock' = now
    /\ UNCHANGED <<procVars, trackerVars, retry_delay, callbacks, completed_jobs, failed_jobs, active_jobs, runVars,
                   loopVars, attempts>>

\* The keys of self.active_jobs (a set of pairs <<job id, task>>, the task
\* named by its job).
ActiveIds == {e[1] : e \in active_jobs}

\* self.active_jobs[id].
ActiveTask(id) == (CHOOSE e \in active_jobs : e[1] = id)[2]

RECURSIVE Register(_, _, _)
\* Line 482 for the jobs s in turn: self.active_jobs[job.id] = task.
Register(act, s, J) ==
    IF s = <<>> THEN act
    ELSE Register({e \in act : e[1] # J[Head(s)].id} \cup {<<J[Head(s)].id, Head(s)>>},
                  Tail(s), J)

\* Lines 268-271: remove_job cancels the task filed under the id of a job
\* that is processing.
CancelsTask(j) == job[j].status = "processing" /\ job[j].id \in ActiveIds

\* Task.cancel() has an effect on a task that has not finished.
Unfinished(t) == tpc[t] \notin {"none", "done", "cancelled", "cancelling"}

\* The task waits on a future that cancel() cancels (the generator call, the
\* backoff sleep, a semaphore slot not yet granted): cancelling it puts the
\* task into the ready queue.  Any other unfinished task is in that queue
\* already.
Suspended(t) ==
    \/ tpc[t] \in {"gen", "sleep"}
    \/ tpc[t] = "semwait" /\ t \notin sem.granted

\* remove_job(job_id): the first job of self.jobs with that id is job j at
\* index i.
remove_job(id) ==
    /\ cur = 0
    /\ \E i \in 1..Len(jobs) :
         /\ job[jobs[i]].id = id
         /\ \A k \in 1..(i - 1) : job[jobs[k]].id # id
         /\ LET j == jobs[i]
                cancelTask == CancelsTask(j)
                t == IF cancelTask THEN ActiveTask(id) ELSE j
                hit == cancelTask /\ Unfinished(t)
                J == [job EXCEPT ![j] = JobCancel(@)]
                js == RemoveAt(jobs, i)
                fs == Append(failed_jobs, j)
                st == [stats EXCEPT !.cancelled_jobs = @ + 1]
            IN  /\ tpc' = IF hit THEN [tpc EXCEPT ![t] = "cancelling"] ELSE tpc
                /\ ready' = IF hit /\ Suspended(t) THEN Append(ready, t) ELSE ready
                /\ sem' = IF hit /\ tpc[t] = "semwait" /\ t \notin sem.granted
                          THEN [sem EXCEPT !.waiters = Without(@, {t})]
                          ELSE sem
                /\ active_jobs' = IF cancelTask
                                  THEN {e \in active_jobs : e[1] # id}
                                  ELSE active_jobs
                /\ job' = J
                /\ jobs' = js
                /\ failed_jobs' = fs
                /\ stats' = st
                /\ disk' = Snapshot(J, js, completed_jobs, fs, st)
    /\ UNCHANGED <<procVars, trackerVars, retry_delay, callbacks, outcome, completed_jobs, clock, runVars, depth, cur,
                   attempts>>

\* clear_queue(status_filter); "all" stands for the default None.
clear_queue(filter) ==
    /\ cur = 0
    /\ LET js == IF filter = "pending"
                 THEN SelectSeqIdx(jobs, 1, {j \in Range(jobs) : job[j].status # "pending"})
                 ELSE IF filter = "all" THEN <<>> ELSE jobs
           cs == IF filter \in {"completed", "all"} THEN <<>> ELSE completed_jobs
           fs == IF filter \in {"failed", "all"} THEN <<>> ELSE failed_jobs
           st == IF filter = "all" THEN NoStats ELSE stats
       IN  IF filter \in {"pending", "failed", "completed", "all"}
           THEN /\ jobs' = js
                /\ completed_jobs' = cs
                /\ failed_jobs' = fs
                /\ stats' = st
                /\ disk' = Snapshot(job, js, cs, fs, st)
           ELSE UNCHANGED <<jobs, completed_jobs, failed_jobs, stats, disk>>
    /\ UNCHANGED <<procVars, trackerVars, retry_delay, callbacks, outcome, job, active_jobs, clock, runVars, loopVars,
                   attempts>>

\* ------------------------------------------------------------- restarts
\* The process ends (it exits, is killed, or dies) leaving the ledger file
\* as f, and a new BatchProcessor is constructed: __init__ and
\* _load_batch_data.  The old event loop and its tasks are gone.
Restart(f) ==
    /\ restarts < MaxRestarts
    /\ restarts' = restarts + 1
    /\ disk' = f
    /\ LET L == Load(f, job)
       IN  /\ job' = L.job
           /\ jobs' = L.jobs
           /\ completed_jobs' = L.completed_jobs
           /\ failed_jobs' = L.failed_jobs
           /\ stats' = L.stats
    /\ outcome' = Outcome("none", <<>>, "none", NoReport)
    /\ callbacks' = [j \in JobIds |-> "none"]
    /\ active_jobs' = {}
    /\ runPc' = "idle"
    /\ auto_retry' = TRUE
    /\ tasks' = <<>>
    /\ completed_count' = 0
    /\ doneq' = <<>>
    /\ sem' = NewSemaphore(0)
    /\ ready' = <<>>
    /\ tpc' = [j \in JobIds |-> "none"]
    /\ depth' = [j \in JobIds |-> 0]
    /\ cur' = 0
    /\ attempts' = [j \in JobIds |-> 0]
    /\ retry_delay' = [j \in JobIds |-> 0]
    /\ UNCHANGED <<max_concurrent, clock, trackerVars>>

\* The process ends outside _save_batch_data.
Crash == Restart(disk)

\* The process ends inside _save_batch_data, between open(..., 'w') (line
\* 181) and the end of json.dump (line 182); every call that saves can be
\* the one.
CrashInSave == Restart(TornFile)

\* The file is damaged from outside (part k) while no process runs.
RestartOnDamagedFile(k) ==
    /\ disk.whole
    /\ k \in 1..(Len(disk.order) + 1)
    /\ Restart(Damaged(disk, k))

\* ---------------------------------------------------------- process_batch
\* The latest created_at among the jobs s (0 for none).
LatestCreation(s, J) ==
    IF s = <<>> THEN 0
    ELSE J[CHOOSE j \in Range(s) : \A k \in Range(s) : J[k].created_at <= J[j].created_at].created_at

\* The clock after n sleeps of a second made since the jobs s were pending at
\* the start of the run: every one of them was created before the run began.
AfterSleeps(n, s, J) ==
    IF clock >= LatestCreation(s, J) + n * TicksPerSecond THEN clock
    ELSE LatestCreation(s, J) + n * TicksPerSecond

\* process_batch(auto_retry) up to its first suspension (asyncio.sleep(1),
\* line 469), or to its early return (lines 444-449).
RunBegin(ar) ==
    /\ cur = 0
    /\ runPc = "idle"
    /\ IF jobs = <<>> \/ PendingJobs(jobs, job) = <<>>
       THEN /\ outcome' = Outcome("process_batch", <<ar>>, "none",
                                  Message(IF jobs = <<>>
                                          THEN "No jobs to process"
                                          ELSE "No pending jobs to process"))
            /\ UNCHANGED runVars
       ELSE /\ outcome' = Outcome("process_batch", <<ar>>, "pending", NoReport)
            /\ runPc' = "setup"
            /\ auto_retry' = ar
            /\ tasks' = PendingJobs(jobs, job)
            /\ completed_count' = 0
            /\ doneq' = <<>>
    /\ UNCHANGED <<procVars, trackerVars, retry_delay, callbacks, stats, job, jobs, completed_jobs, failed_jobs,
                   active_jobs, clock, disk, loopVars, attempts>>

\* Lines 469-486, after the sleep of a second: the semaphore, one task per pending job,
\* then the wait in as_completed.  asyncio.Semaphore raises ValueError for a
\* negative value; the handler of lines 529-539 clears active_jobs (which
\* holds no task then) and raises it again.
RunCreateTasks ==
    /\ cur = 0
    /\ runPc = "setup"
    /\ clock' = AfterSleeps(1, tasks, job)
    /\ IF max_concurrent < 0
       THEN /\ runPc' = "aborted"
            /\ outcome' = Outcome("process_batch", <<auto_retry>>, "ValueError",
                                  NoReport)
            /\ active_jobs' = {}
            /\ UNCHANGED <<sem, tpc, depth, ready>>
       ELSE /\ sem' = NewSemaphore(max_concurrent)
            /\ tpc' = [j \in JobIds |-> IF j \in Range(tasks) THEN "enter" ELSE tpc[j]]
            /\ depth' = [j \in JobIds |-> IF j \in Range(tasks) THEN 0 ELSE depth[j]]
            /\ ready' = ready \o tasks
            /\ active_jobs' = Register(active_jobs, tasks, job)
            /\ runPc' = "wait"
            /\ UNCHANGED outcome
    /\ UNCHANGED <<procVars, trackerVars, retry_delay, callbacks, stats, job, jobs, completed_jobs, failed_jobs, disk,
                   auto_retry, tasks, completed_count, doneq, cur, attempts>>

\* Lines 486-502: process_batch takes the finished tasks; more are to come.
RunObserve ==
    /\ cur = 0
    /\ runPc = "wait"
    /\ ready # <<>> /\ Head(ready) = RunTask
    /\ FirstCancelled(doneq, tpc) = 0
    /\ completed_count + Len(doneq) < Len(tasks)
    /\ completed_count' = completed_count + Len(doneq)
    /\ doneq' = <<>>
    /\ ready' = Tail(ready)
    /\ UNCHANGED <<procVars, trackerVars, retry_delay, apiVars, job, jobs, completed_jobs, failed_jobs,
                   active_jobs, clock, disk, runPc, auto_retry, tasks, sem, tpc,
                   depth, cur, attempts>>

\* Lines 486-514: the last task is taken; statistics, save, active_jobs.clear(),
\* then asyncio.sleep(1).
RunFinalize ==
    /\ cur = 0
    /\ runPc = "wait"
    /\ ready # <<>> /\ Head(ready) = RunTask
    /\ FirstCancelled(doneq, tpc) = 0
    /\ completed_count + Len(doneq) = Len(tasks)
    /\ completed_count' = Len(tasks)
    /\ doneq' = <<>>
    /\ ready' = Tail(ready)
    /\ stats' = BatchStatistics(job, jobs, completed_jobs, failed_jobs)
    /\ disk' = Snapshot(job, jobs, completed_jobs, failed_jobs, stats')
    /\ active_jobs' = {}
    /\ runPc' = "finalize"
    /\ UNCHANGED <<procVars, trackerVars, retry_delay, callbacks, outcome, job, jobs, completed_jobs, failed_jobs, clock,
                   auto_retry, tasks, sem, tpc, depth, cur, attempts>>

\* Line 488: `await task` on a cancelled task raises CancelledError, which
\* neither `except Exception` (lines 501, 529) catches: process_batch raises
\* to its caller, its other tasks stay on the loop.
RunAbort ==
    /\ cur = 0
    /\ runPc = "wait"
    /\ ready # <<>> /\ Head(ready) = RunTask
    /\ FirstCancelled(doneq, tpc) # 0
    /\ completed_count' = completed_count + FirstCancelled(doneq, tpc) - 1
    /\ doneq' = SubSeq(doneq, FirstCancelled(doneq, tpc) + 1, Len(doneq))
    /\ ready' = Tail(ready)
    /\ runPc' = "aborted"
    /\ outcome' = Outcome("process_batch", <<auto_retry>>, "CancelledError", NoReport)
    /\ UNCHANGED <<procVars, trackerVars, retry_delay, callbacks, stats, job, jobs, completed_jobs, failed_jobs,
                   active_jobs, clock, disk, auto_retry, tasks, sem, tpc, depth, cur,
                   attempts>>

\* Lines 514-527, after the second sleep of a second: the report is made and
\* returned.
RunReturn ==
    /\ cur = 0
    /\ runPc = "finalize"
    /\ runPc' = "idle"
    /\ clock' = AfterSleeps(2, tasks, job)
    /\ outcome' = Outcome("process_batch", <<auto_retry>>, "none",
                          BatchReport(job, jobs, completed_jobs, failed_jobs))
    /\ tasks' = <<>>
    /\ completed_count' = 0
    /\ tpc' = [j \in JobIds |-> "none"]
    /\ depth' = [j \in JobIds |-> 0]
    /\ sem' = NewSemaphore(0)
    /\ UNCHANGED <<procVars, trackerVars, retry_delay, callbacks, stats, job, jobs, completed_jobs, failed_jobs,
                   active_jobs, disk, auto_retry, doneq, ready, cur, attempts>>


\* --------------------------------------------------- _process_single_job
\* What a task leaves behind when _process_single_job returns or raises
\* through its depth[j] nested `async with semaphore` blocks.
LeaveTask(j, pc) ==
    LET s == ReleaseN(sem, depth[j])
    IN  /\ sem' = s
        /\ depth' = [depth EXCEPT ![j] = 0]
        /\ tpc' = [tpc EXCEPT ![j] = pc]
        /\ doneq' = Append(doneq, j)
        /\ ready' = WakeRun(Tail(ready) \o NewlyGranted(sem, s), runPc)

\* The same when the task is the running one (not at the head of ready).
LeaveRunning(j, pc) ==
    LET s == ReleaseN(sem, depth[j])
    IN  /\ sem' = s
        /\ depth' = [depth EXCEPT ![j] = 0]
        /\ tpc' = [tpc EXCEPT ![j] = pc]
        /\ doneq' = Append(doneq, j)
        /\ ready' = WakeRun(ready \o NewlyGranted(sem, s), runPc)

\* Lines 544-546: `async with semaphore` finds a free slot, then job.start().
TaskAcquire(j) ==
    /\ cur = 0
    /\ ready # <<>> /\ Head(ready) = j
    /\ tpc[j] = "enter"
    /\ ~Locked(sem)
    /\ sem' = [sem EXCEPT !.value = @ - 1]
    /\ depth' = [depth EXCEPT ![j] = @ + 1]
    /\ job' = [job EXCEPT ![j] = JobStart(@)]
    /\ attempts' = [attempts EXCEPT ![j] = @ + 1]
    /\ tpc' = [tpc EXCEPT ![j] = "call"]
    /\ cur' = j
    /\ ready' = Tail(ready)
    /\ callbacks' = [callbacks EXCEPT ![j] = "start"]
    /\ UNCHANGED <<procVars, trackerVars, retry_delay, stats, outcome, jobs, completed_jobs, failed_jobs, active_jobs, clock,
                   disk, runVars>>

\* Line 544: no free slot (or waiters ahead): the task joins the waiters.
TaskWait(j) ==
    /\ cur = 0
    /\ ready # <<>> /\ Head(ready) = j
    /\ tpc[j] = "enter"
    /\ Locked(sem)
    /\ sem' = [sem EXCEPT !.waiters = Append(@, j)]
    /\ tpc' = [tpc EXCEPT ![j] = "semwait"]
    /\ ready' = Tail(ready)
    /\ UNCHANGED <<procVars, trackerVars, retry_delay, apiVars, job, jobs, completed_jobs, failed_jobs, active_jobs,
                   clock, disk, runVars, depth, cur, attempts>>

\* Lines 544-546: a waiter that was handed a slot resumes, then job.start().
TaskGranted(j) ==
    /\ cur = 0
    /\ ready # <<>> /\ Head(ready) = j
    /\ tpc[j] = "semwait"
    /\ j \in sem.granted
    /\ LET s1 == Resumed(sem, j)
           s2 == WakeWhileFree(s1)
       IN  /\ sem' = s2
           /\ ready' = Tail(ready) \o NewlyGranted(s1, s2)
    /\ depth' = [depth EXCEPT ![j] = @ + 1]
    /\ job' = [job EXCEPT ![j] = JobStart(@)]
    /\ attempts' = [attempts EXCEPT ![j] = @ + 1]
    /\ tpc' = [tpc EXCEPT ![j] = "call"]
    /\ cur' = j
    /\ callbacks' = [callbacks EXCEPT ![j] = "start"]
    /\ UNCHANGED <<procVars, trackerVars, retry_delay, stats, outcome, jobs, completed_jobs, failed_jobs, active_jobs, clock,
                   disk, runVars>>

\* Lines 567, 616-634: the generator call of a job whose model has an
\* endpoint: the task suspends until the generator returns.
TaskCall(j) ==
    /\ cur = j
    /\ tpc[j] = "call"
    /\ job[j].model = "known"
    /\ tpc' = [tpc EXCEPT ![j] = "gen"]
    /\ cur' = 0
    /\ UNCHANGED <<procVars, trackerVars, retry_delay, apiVars, job, jobs, completed_jobs, failed_jobs, active_jobs,
                   clock, disk, runVars, sem, ready, depth, attempts>>

\* Lines 623-624, 592-594: a model without endpoint raises ValueError before
\* any suspension; the handler calls job.fail().
TaskCallRaises(j) ==
    /\ cur = j
    /\ tpc[j] = "call"
    /\ job[j].model = "unknown"
    /\ job' = [job EXCEPT ![j] = JobFail(@)]
    /\ tpc' = [tpc EXCEPT ![j] = "failed"]
    /\ callbacks' = [callbacks EXCEPT ![j] = "fail"]
    /\ UNCHANGED <<procVars, trackerVars, retry_delay, stats, outcome, jobs, completed_jobs, failed_jobs, active_jobs, clock,
                   disk, runVars, sem, ready, depth, cur, attempts>>

\* The generator collaborator returns a result (ok) or raises an error.
GenReturn(j, ok) ==
    /\ cur = 0
    /\ tpc[j] = "gen"
    /\ tpc' = [tpc EXCEPT ![j] = IF ok THEN "resume_ok" ELSE "resume_err"]
    /\ ready' = Append(ready, j)
    /\ UNCHANGED <<procVars, trackerVars, retry_delay, apiVars, job, jobs, completed_jobs, failed_jobs, active_jobs,
                   clock, disk, runVars, sem, depth, cur, attempts>>

\* Lines 567-590: the result arrives; job.complete(); the task returns.
TaskComplete(j) ==
    /\ cur = 0
    /\ ready # <<>> /\ Head(ready) = j
    /\ tpc[j] = "resume_ok"
    /\ job' = [job EXCEPT ![j] = JobComplete(@)]
    /\ LeaveTask(j, "done")
    /\ callbacks' = [callbacks EXCEPT ![j] = "complete"]
    /\ UNCHANGED <<procVars, trackerVars, retry_delay, stats, outcome, jobs, completed_jobs, failed_jobs, active_jobs, clock,
                   disk, runPc, auto_retry, tasks, completed_count, cur, attempts>>

\* Lines 592-594: the generator's error arrives; job.fail().
TaskFail(j) ==
    /\ cur = 0
    /\ ready # <<>> /\ Head(ready) = j
    /\ tpc[j] = "resume_err"
    /\ job' = [job EXCEPT ![j] = JobFail(@)]
    /\ tpc' = [tpc EXCEPT ![j] = "failed"]
    /\ cur' = j
    /\ ready' = Tail(ready)
    /\ callbacks' = [callbacks EXCEPT ![j] = "fail"]
    /\ UNCHANGED <<procVars, trackerVars, retry_delay, stats, outcome, jobs, completed_jobs, failed_jobs, active_jobs, clock,
                   disk, runVars, sem, depth, attempts>>

\* Lines 602-608: job.retry(), then the backoff sleep, inside the
\* `async with semaphore` block of this attempt.
TaskRetry(j) ==
    /\ cur = j
    /\ tpc[j] = "failed"
    /\ auto_retry /\ CanRetry(job[j])
    /\ job' = [job EXCEPT ![j] = JobRetry(@)]
    /\ retry_delay' = [retry_delay EXCEPT ![j] = 2 ^ JobRetry(job[j]).retry_count]
    /\ tpc' = [tpc EXCEPT ![j] = "sleep"]
    /\ cur' = 0
    /\ UNCHANGED <<procVars, trackerVars, apiVars, jobs, completed_jobs, failed_jobs, active_jobs, clock,
                   disk, runVars, sem, ready, depth, attempts>>

\* Line 612: no retry; the task returns its "failed" record.
TaskGiveUp(j) ==
    /\ cur = j
    /\ tpc[j] = "failed"
    /\ ~(auto_retry /\ CanRetry(job[j]))
    /\ LeaveRunning(j, "done")
    /\ cur' = 0
    /\ UNCHANGED <<procVars, trackerVars, retry_delay, apiVars, job, jobs, completed_jobs, failed_jobs, active_jobs,
                   clock, disk, runPc, auto_retry, tasks, completed_count, attempts>>

\* Lines 608-610: the backoff ends; the task calls _process_single_job again.
TimerFire(j) ==
    /\ cur = 0
    /\ tpc[j] = "sleep"
    /\ tpc' = [tpc EXCEPT ![j] = "enter"]
    /\ ready' = Append(ready, j)
    /\ UNCHANGED <<procVars, trackerVars, retry_delay, apiVars, job, jobs, completed_jobs, failed_jobs, active_jobs,
                   clock, disk, runVars, sem, depth, cur, attempts>>

\* Task.cancel() (line 271) takes effect: CancelledError is raised where the
\* task waits (or before its first step), passes `except Exception` (line
\* 592) and ends the task, leaving every `async with semaphore` it is in.  A
\* task cancelled after it was granted a slot in acquire() gives that slot
\* back as well.
TaskCancelled(j) ==
    /\ cur = 0
    /\ ready # <<>> /\ Head(ready) = j
    /\ tpc[j] = "cancelling"
    /\ LET s0 == IF j \in sem.granted THEN Release(Resumed(sem, j)) ELSE sem
           s == ReleaseN(s0, depth[j])
       IN  /\ sem' = s
           /\ ready' = WakeRun(Tail(ready) \o NewlyGranted(sem, s), runPc)
    /\ depth' = [depth EXCEPT ![j] = 0]
    /\ tpc' = [tpc EXCEPT ![j] = "cancelled"]
    /\ doneq' = Append(doneq, j)
    /\ UNCHANGED <<procVars, trackerVars, retry_delay, apiVars, job, jobs, completed_jobs, failed_jobs, active_jobs,
                   clock, disk, runPc, auto_retry, tasks, completed_count, cur,
                   attempts>>

\* ------------------------------------------------------------------ Next
\* The filters clear_queue is called with ("bogus": an invalid one).
Filters == {"pending", "failed", "completed", "all", "bogus"}

Next ==
    \/ \E p \in Priorities, m \in Models, now \in {clock, clock + 1} :
          add_job(TRUE, <<" ", "a">>, p, m, "json", now)
    \/ \E j \in 1..Len(job) : remove_job(job[j].id)
    \/ \E ar \in BOOLEAN : RunBegin(ar)
    \/ RunCreateTasks
    \/ RunObserve
    \/ RunFinalize
    \/ RunAbort
    \/ RunReturn
    \/ \E j \in JobIds : TaskAcquire(j)
    \/ \E j \in JobIds : TaskWait(j)
    \/ \E j \in JobIds : TaskGranted(j)
    \/ \E j \in JobIds : TaskCall(j)
    \/ \E j \in JobIds : TaskCallRaises(j)
    \/ \E j \in JobIds, ok \in BOOLEAN : GenReturn(j, ok)
    \/ \E j \in JobIds : TaskComplete(j)
    \/ \E j \in JobIds : TaskFail(j)
    \/ \E j \in JobIds : TaskRetry(j)
    \/ \E j \in JobIds : TaskGiveUp(j)
    \/ \E j \in JobIds : TimerFire(j)
    \/ \E j \in JobIds : TaskCancelled(j)

Spec == Init /\ [][Next]_vars


\* ------------------------------------------------ the ledger over restarts
\* A processor with max_concurrent = 1.
InitStore == Init /\ max_concurrent = 1

\* The processor over restarts: jobs of one priority on a model with an
\* endpoint and with parameters JSON keeps, runs without auto-retry, the
\* queue cleared, and the process ending and starting again on the ledger
\* file.
NextStore ==
    \/ \E now \in {clock, clock + 1} :
          add_job(TRUE, <<" ", "a">>, 1, "known", "json", now)
    \/ \E j \in 1..Len(job) : remove_job(job[j].id)
    \/ \E filter \in Filters : clear_queue(filter)
    \/ Crash
    \/ CrashInSave
    \/ \E k \in 1..(MaxJobs + 1) : RestartOnDamagedFile(k)
    \/ RunBegin(FALSE)
    \/ RunCreateTasks
    \/ RunObserve
    \/ RunFinalize
    \/ RunAbort
    \/ RunReturn
    \/ \E j \in JobIds : TaskAcquire(j)
    \/ \E j \in JobIds : TaskWait(j)
    \/ \E j \in JobIds : TaskGranted(j)
    \/ \E j \in JobIds : TaskCall(j)
    \/ \E j \in JobIds, ok \in BOOLEAN : GenReturn(j, ok)
    \/ \E j \in JobIds : TaskComplete(j)
    \/ \E j \in JobIds : TaskFail(j)
    \/ \E j \in JobIds : TaskGiveUp(j)
    \/ \E j \in JobIds : TaskCancelled(j)

StoreSpec == InitStore /\ [][NextStore]_vars

\* ------------------------------------------------------ the queue's API
\* The calls that change the queue, with any input, and the process ending
\* and starting again on the ledger file; no run.
NextApi ==
    \/ \E params \in {"json", "tuple", "object"}, now \in {clock, clock + 1} :
          add_job(TRUE, <<" ", "a">>, 1, "known", params, now)
    \/ \E exists \in BOOLEAN, prompt \in Prompts :
          /\ ~exists \/ prompt # <<" ", "a">>
          /\ add_job(exists, prompt, 1, "known", "json", clock)
    \/ \E j \in 1..Len(job) : remove_job(job[j].id)
    \/ \E filter \in Filters : clear_queue(filter)
    \/ Crash
    \/ CrashInSave
    \/ \E k \in 1..(MaxJobs + 1) : RestartOnDamagedFile(k)

ApiSpec == Init /\ [][NextApi]_vars

\* ----------------------------------------------- a limit of 0 or less
\* BatchProcessor(max_concurrent) with a limit of 0 or of -1: __init__
\* (line 98) takes any number.
InitLimit == max_concurrent \in {-1, 0} /\ Constructed

\* What such a processor can do: jobs are added and removed, process_batch
\* is called, and its tasks reach the semaphore.
NextLimit ==
    \/ \E p \in Priorities, m \in Models, now \in {clock, clock + 1} :
          add_job(TRUE, <<" ", "a">>, p, m, "json", now)
    \/ \E j \in 1..Len(job) : remove_job(job[j].id)
    \/ \E ar \in BOOLEAN : RunBegin(ar)
    \/ RunCreateTasks
    \/ \E j \in JobIds : TaskWait(j)

\* The event loop runs process_batch and every ready task.
LimitFairness ==
    /\ WF_vars(RunCreateTasks)
    /\ \A j \in JobIds : WF_vars(TaskWait(j))

LimitSpec == InitLimit /\ [][NextLimit]_vars /\ LimitFairness

\* ------------------------------------------------- the progress tracker
\* AdvancedProgressTracker and FALProgressTracker
\* (src/core/launcher/progress_tracker.py).  The display, the spinner thread
\* and the time stamps are left out: they write nothing the methods read.
\* Most stages one tracker is given.
MaxStages == 3

\* Stage names given to add_stage (a name may be given twice), and one more
\* that no stage has.
StageNames == {"validation", "upload"}

\* Progress values passed to update_current_stage, in percent.
ProgressValues == {-50, 50, 150}

\* Messages passed to the tracker's methods.
Messages == {"", "m"}

batchVars == <<max_concurrent, restarts, stats, outcome, callbacks, job, jobs,
               completed_jobs, failed_jobs, active_jobs, clock, disk, runPc,
               auto_retry, tasks, completed_count, doneq, sem, ready, tpc,
               depth, cur, attempts, retry_delay>>

\* `0 <= self.current_stage_index < len(self.stages)`.
HasCurrentStage == 0 <= current_stage_index /\ current_stage_index < Len(stages)

\* self.stages[i] (Python counts from 0).
StageAt(S, i) == S[i + 1]

\* Lines 258-259: completed stages over all stages, in percent.
OverallProgress(S) ==
    IF S = <<>> THEN 0
    ELSE (100 * Cardinality({i \in 1..Len(S) : S[i].status = "completed"})) \div Len(S)

\* add_stage(name, description, estimated_duration).
add_stage(name) ==
    /\ Len(stages) < MaxStages
    /\ stages' = Append(stages, ProgressStage(name))
    /\ UNCHANGED <<current_stage_index, overall_status, batchVars>>

\* start(): lines 107-115.
start ==
    /\ overall_status' = "running"
    /\ UNCHANGED <<stages, current_stage_index, batchVars>>

\* next_stage(message).  The index grows with every call, also past the
\* last stage; the model stops counting one past the end of a full tracker.
next_stage(message) ==
    /\ current_stage_index <= MaxStages
    /\ LET completed ==
               IF HasCurrentStage /\ StageAt(stages, current_stage_index).status = "active"
               THEN [stages EXCEPT ![current_stage_index + 1] = StageComplete(@, message)]
               ELSE stages
           i == current_stage_index + 1
       IN  /\ current_stage_index' = i
           /\ stages' = IF i >= Len(stages) THEN completed
                         ELSE [completed EXCEPT ![i + 1] = StageStart(@)]
    /\ UNCHANGED <<overall_status, batchVars>>

\* update_current_stage(progress, message).
update_current_stage(progress, message) ==
    /\ stages' = IF HasCurrentStage
                  THEN [stages EXCEPT ![current_stage_index + 1] =
                                          StageUpdate(@, progress, message)]
                  ELSE stages
    /\ UNCHANGED <<current_stage_index, overall_status, batchVars>>

\* fail_current_stage(error_message).
fail_current_stage(error_message) ==
    /\ IF HasCurrentStage
       THEN /\ stages' = [stages EXCEPT ![current_stage_index + 1] =
                                            StageFail(@, error_message)]
            /\ overall_status' = "failed"
       ELSE UNCHANGED <<stages, overall_status>>
    /\ UNCHANGED <<current_stage_index, batchVars>>

\* complete(message).
complete ==
    /\ stages' = IF HasCurrentStage /\ StageAt(stages, current_stage_index).status = "active"
                  THEN [stages EXCEPT ![current_stage_index + 1] = StageComplete(@, "")]
                  ELSE stages
    /\ overall_status' = "completed"
    /\ UNCHANGED <<current_stage_index, batchVars>>

\* Lines 370-374: the index of the first stage of that name, -1 if there is
\* none.
TargetIndex(S, stage_name) ==
    LET named == {i \in 0..(Len(S) - 1) : StageAt(S, i).name = stage_name}
    IN  IF named = {} THEN -1 ELSE CHOOSE i \in named : \A k \in named : i <= k

RECURSIVE CompleteUpTo(_, _, _)
\* Lines 378-381: the loop that completes the stages from index i up to the
\* target; the stages and the index it ends with.
CompleteUpTo(S, i, target_index) ==
    IF i < target_index
    THEN CompleteUpTo(IF i >= 0 THEN [S EXCEPT ![i + 1] = StageComplete(@, "")] ELSE S,
                      i + 1, target_index)
    ELSE [stages |-> S, index |-> i]

\* A _move_to_stage that goes to the named stage wherever it is.
move_to_stage_Anywhere(stage_name) ==
    LET target_index == TargetIndex(stages, stage_name)
    IN  /\ IF target_index >= 0
           THEN LET moved == CompleteUpTo(stages, current_stage_index, target_index)
                IN  /\ current_stage_index' = target_index
                    /\ stages' = [moved.stages EXCEPT ![target_index + 1] = StageStart(@)]
           ELSE UNCHANGED <<stages, current_stage_index>>
        /\ UNCHANGED <<overall_status, batchVars>>

\* FALProgressTracker._move_to_stage(stage_name).
move_to_stage(stage_name) ==
    LET target_index == TargetIndex(stages, stage_name)
    IN  /\ IF target_index >= 0 /\ target_index > current_stage_index
           THEN LET moved == CompleteUpTo(stages, current_stage_index, target_index)
                IN  /\ current_stage_index' = moved.index
                    /\ stages' = IF moved.index < Len(moved.stages)
                                  THEN [moved.stages EXCEPT ![moved.index + 1] = StageStart(@)]
                                  ELSE moved.stages
           ELSE UNCHANGED <<stages, current_stage_index>>
        /\ UNCHANGED <<overall_status, batchVars>>

\* A tracker by itself.
InitTracker == max_concurrent = 1 /\ Constructed

NextTracker ==
    \/ \E name \in StageNames : add_stage(name)
    \/ start
    \/ \E message \in Messages : next_stage(message)
    \/ \E progress \in ProgressValues :
          \* a message comes with the progress that is in range
          update_current_stage(progress, IF progress = 50 THEN "m" ELSE "")
    \/ fail_current_stage("")
    \/ complete
    \/ \E name \in StageNames \cup {"download"} : move_to_stage(name)

TrackerSpec == InitTracker /\ [][NextTracker]_vars

\* ------------------------------------------------- the run under fairness
\* A processor on which add_job was called n times (priority 1, one call per
\* clock tick) and nothing else yet.
InitLive ==
    /\ max_concurrent \in 1..MaxConcurrent
    /\ \E n \in 1..MaxJobs :
         \E ms \in [1..n -> Models] :
            LET J == [i \in 1..n |-> NewJob(JobId(i, i - 1), 1, ms[i], "json", i)]
                js == SortJobs([i \in 1..n |-> i], J)
                st == [NoStats EXCEPT !.total_jobs = n]
            IN  /\ job = J
                /\ jobs = js
                /\ clock = n
                /\ stats = st
                /\ outcome = Outcome("add_job", <<TRUE, <<" ", "a">>>>, "none", NoReport)
                /\ disk = Snapshot(J, js, <<>>, <<>>, st)
    /\ restarts = 0
    /\ callbacks = [j \in JobIds |-> "none"]
    /\ completed_jobs = <<>>
    /\ failed_jobs = <<>>
    /\ active_jobs = {}
    /\ runPc = "idle"
    /\ auto_retry = TRUE
    /\ tasks = <<>>
    /\ completed_count = 0
    /\ doneq = <<>>
    /\ sem = NewSemaphore(0)
    /\ ready = <<>>
    /\ tpc = [j \in JobIds |-> "none"]
    /\ depth = [j \in JobIds |-> 0]
    /\ cur = 0
    /\ attempts = [j \in JobIds |-> 0]
    /\ retry_delay = [j \in JobIds |-> 0]
    /\ TrackerConstructed

\* One process_batch and its tasks, nobody calling add_job or remove_job.
NextLive ==
    \/ \E ar \in BOOLEAN : RunBegin(ar)
    \/ RunCreateTasks
    \/ RunObserve
    \/ RunFinalize
    \/ RunReturn
    \/ \E j \in JobIds : TaskAcquire(j)
    \/ \E j \in JobIds : TaskWait(j)
    \/ \E j \in JobIds : TaskGranted(j)
    \/ \E j \in JobIds : TaskCall(j)
    \/ \E j \in JobIds : TaskCallRaises(j)
    \/ \E j \in JobIds, ok \in BOOLEAN : GenReturn(j, ok)
    \/ \E j \in JobIds : TaskComplete(j)
    \/ \E j \in JobIds : TaskFail(j)
    \/ \E j \in JobIds : TaskRetry(j)
    \/ \E j \in JobIds : TaskGiveUp(j)
    \/ \E j \in JobIds : TimerFire(j)

\* The event loop runs every ready task, every timer fires, and every
\* generator call returns (with a result or an error).
Fairness ==
    /\ WF_vars(RunCreateTasks)
    /\ WF_vars(RunObserve)
    /\ WF_vars(RunFinalize)
    /\ WF_vars(RunReturn)
    /\ \A j \in JobIds :
         /\ WF_vars(TaskAcquire(j))
         /\ WF_vars(TaskWait(j))
         /\ WF_vars(TaskGranted(j))
         /\ WF_vars(TaskCall(j))
         /\ WF_vars(TaskCallRaises(j))
         /\ WF_vars(\E ok \in BOOLEAN : GenReturn(j, ok))
         /\ WF_vars(TaskComplete(j))
         /\ WF_vars(TaskFail(j))
         /\ WF_vars(TaskRetry(j))
         /\ WF_vars(TaskGiveUp(j))
         /\ WF_vars(TimerFire(j))

LiveSpec == InitLive /\ [][NextLive]_vars /\ Fairness

\* ------------------------------------------------- the retry backoff
\* Largest max_retries a job is given (BatchJob.max_retries is a field of the
\* job: a caller sets it on the job, and _load_batch_data takes it from the
\* ledger file).
MaxMaxRetries == 5

\* A processor with a slot for every nested attempt of one job, and jobs
\* each with a max_retries of its own, added one per clock tick.
InitBackoff ==
    /\ max_concurrent = MaxMaxRetries + 1
    /\ \E n \in 1..MaxJobs :
         \E rs \in [1..n -> 0..MaxMaxRetries], ms \in [1..n -> Models] :
            LET J == [i \in 1..n |->
                        [NewJob(JobId(i, i - 1), 1, ms[i], "json", i)
                            EXCEPT !.max_retries = rs[i]]]
                js == SortJobs([i \in 1..n |-> i], J)
                st == [NoStats EXCEPT !.total_jobs = n]
            IN  /\ job = J
                /\ jobs = js
                /\ clock = n
                /\ stats = st
                /\ outcome = Outcome("add_job", <<TRUE, <<" ", "a">>>>, "none", NoReport)
                /\ disk = Snapshot(J, js, <<>>, <<>>, st)
    /\ restarts = 0
    /\ callbacks = [j \in JobIds |-> "none"]
    /\ completed_jobs = <<>>
    /\ failed_jobs = <<>>
    /\ active_jobs = {}
    /\ runPc = "idle"
    /\ auto_retry = TRUE
    /\ tasks = <<>>
    /\ completed_count = 0
    /\ doneq = <<>>
    /\ sem = NewSemaphore(0)
    /\ ready = <<>>
    /\ tpc = [j \in JobIds |-> "none"]
    /\ depth = [j \in JobIds |-> 0]
    /\ cur = 0
    /\ attempts = [j \in JobIds |-> 0]
    /\ retry_delay = [j \in JobIds |-> 0]
    /\ TrackerConstructed

\* One process_batch and its tasks on such a processor.
BackoffSpec == InitBackoff /\ [][NextLive]_vars

\* ------------------------------------------------------------ vocabulary
\* The jobs in the three lists.
Listed == Range(jobs) \cup Range(completed_jobs) \cup Range(failed_jobs)

\* The job objects the processor still reaches: through its lists or through
\* a task.
AllJobs == {j \in 1..Len(job) : j \in Listed \/ tpc[j] # "none"}

NumProcessing == Cardinality({j \in AllJobs : job[j].status = "processing"})

\* Terminal: completed, cancelled, or failed with the retries used up.
Terminal(r) ==
    \/ r.status \in {"completed", "cancelled"}
    \/ r.status = "failed" /\ r.retry_count = r.max_retries

\* The job's task has made its first job.start() of the current run.
Started(j) ==
    /\ tpc[j] # "none"
    /\ ~(tpc[j] \in {"enter", "semwait"} /\ depth[j] = 0)

\* The status the ledger file holds for job j.
DiskStatus(j) == IF j \in Range(disk.order) THEN disk.job[j].status ELSE "absent"

C4_RetryBound ==
    /\ [](\A j \in AllJobs : 0 <= job[j].retry_count
                              /\ job[j].retry_count <= job[j].max_retries)
    /\ [][\A j \in AllJobs :
            (job[j].status = "failed" /\ job[j].retry_count = job[j].max_retries)
                => job'[j].status = "failed"]_vars

\* C5: once a job is completed, cancelled, or failed with retries exhausted,
\* no step changes its status.
C5_TerminalIsFinal ==
    [][\A j \in AllJobs : Terminal(job[j]) => job'[j].status = job[j].status]_vars

\* C6: a job removed by remove_job while pending (cancelled, never started or
\* reset by retry) never enters `processing`.
C6_RemovedPendingNeverRuns ==
    [][\A j \in AllJobs :
          (job[j].status = "cancelled" /\ ~job[j].started)
              => job'[j].status # "processing"]_vars

\* C7: remove_job on a processing job marks it cancelled, and from then on,
\* as long as the process lives, its status stays cancelled: the in-flight
\* generator call's outcome is dropped.
C7_CancelledProcessingStaysCancelled ==
    [][restarts' = restarts =>
          \A j \in AllJobs :
             /\ (/\ job[j].status = "processing"
                 /\ j \in Range(jobs) /\ j \in Range(failed_jobs'))
                   => job'[j].status = "cancelled"
             /\ (job[j].status = "cancelled" /\ job[j].started)
                   => job'[j].status = "cancelled"]_vars

C9_QueueOrder ==
    \A a \in 1..Len(jobs), b \in 1..Len(jobs) :
        a < b =>
            \/ job[jobs[a]].priority > job[jobs[b]].priority
            \/ /\ job[jobs[a]].priority = job[jobs[b]].priority
               /\ job[jobs[a]].created_at <= job[jobs[b]].created_at

\* C10: every status transition is in the ledger file before the next
\* transition of any job: when a job's status changes, the file agrees with
\* the status every job had before the change.
C10_TransitionsPersisted ==
    [][(\E j \in AllJobs : job'[j].status # job[j].status)
          => \A k \in AllJobs : DiskStatus(k) = job[k].status]_vars


\* C2: a run with auto-retry, whose generator calls all return, returns, and
\* then every job that was pending when it began is completed, failed or
\* cancelled.
C2_RunTerminates ==
    (runPc = "setup" /\ auto_retry)
        ~> (/\ runPc = "finalize"
            /\ \A j \in Range(tasks) :
                  job[j].status \in {"completed", "failed", "cancelled"})

\* C3: in a run with auto-retry, a job whose every attempt fails (its model
\* has no endpoint) is attempted max_retries + 1 times and ends failed.
C3_RetriesThenFailed ==
    \A j \in JobIds :
        (/\ runPc = "wait" /\ auto_retry
         /\ j \in Range(tasks)
         /\ job[j].model = "unknown")
            ~> (/\ j \in AllJobs
                /\ job[j].status = "failed"
                /\ attempts[j] = job[j].max_retries + 1)

\* C11: a process that dies during a save leaves the ledger file holding the
\* complete previous ledger or the complete new one: when the file was a
\* complete ledger, the file a new processor loads after the old one died is
\* that ledger (the one last saved).
C11_SaveIsAtomic ==
    [][restarts' # restarts /\ disk.whole /\ disk'.bad = 0 => disk' = disk]_vars

\* C12: loading a ledger file turns every job stored as processing into
\* pending with started_at cleared, and leaves the status and every other
\* field of any other job as stored: each job a new processor holds after
\* its load relates so to its entry in the file.
C12_LoadResetsProcessing ==
    [][restarts' # restarts =>
          \A j \in Listed' :
             LET stored == disk'.job[j]
                 loaded == job'[j]
             IN  /\ j \in Range(disk'.order)
                 /\ loaded.status = IF stored.status = "processing" THEN "pending"
                                    ELSE stored.status
                 /\ loaded.started = (stored.started /\ stored.status # "processing")
                 /\ [loaded EXCEPT !.status = "any", !.started = FALSE]
                      = [stored EXCEPT !.status = "any", !.started = FALSE]]_vars

\* C12 happens: a new processor holds, pending and not started, a job its
\* ledger file has as processing, next to a job the file has as cancelled.
C12_Witness ==
    /\ restarts = 1
    /\ \E j \in Range(jobs) :
          /\ j \in Range(disk.order)
          /\ disk.job[j].status = "processing" /\ disk.job[j].started
          /\ job[j].status = "pending" /\ ~job[j].started
    /\ \E k \in Range(failed_jobs) :
          /\ k \in Range(disk.order)
          /\ disk.job[k].status = "cancelled"
          /\ job[k] = disk.job[k]

\* C13: saving the ledger and then loading it reproduces every job with all
\* fields equal, and no job is lost or duplicated: when the ledger file is
\* the save of the ledger in memory and a new processor loads it, the new
\* processor holds the same jobs, each once, with the fields they had.
C13_RoundTrip ==
    [][/\ restarts' # restarts
       /\ disk' = disk
       /\ disk = Snapshot(job, jobs, completed_jobs, failed_jobs, stats)
       => /\ Listed' = Listed
          /\ Len(jobs' \o completed_jobs' \o failed_jobs')
               = Len(jobs \o completed_jobs \o failed_jobs)
          /\ \A j \in Listed : job'[j] = job[j]]_vars

\* C14: loading an unreadable or corrupt ledger file never raises and the
\* processor starts with an empty ledger: a new processor whose file is no
\* JSON document, or has an entry no job can be built from, holds no job in
\* its pending, completed and failed lists.
C14_CorruptFileGivesEmptyLedger ==
    [][restarts' # restarts /\ (~disk'.whole \/ disk'.bad # 0)
          => jobs' = <<>> /\ completed_jobs' = <<>> /\ failed_jobs' = <<>>]_vars

\* C15: no two jobs of the ledger (the pending, completed and failed lists
\* together) have the same id, whatever add_job, remove_job and clear_queue
\* calls were made, also within one clock second.
C15_IdsUnique ==
    \A i \in Listed : \A j \in Listed : i # j => job[i].id # job[j].id

C17_RunNeverRaises ==
    outcome.op = "process_batch" /\ max_concurrent >= 1
        => outcome.raised \in {"none", "pending"}

\* C18: Run with a concurrency limit of 0 or less and at least one pending
\* job raises an error to its caller; it neither starts a job nor blocks:
\* such a run, once begun, comes to raise, with no job processing.
C18_BadLimitRaises ==
    (max_concurrent <= 0 /\ runPc = "setup")
        ~> (/\ runPc = "aborted"
            /\ outcome.raised \notin {"none", "pending"}
            /\ \A j \in 1..Len(job) : job[j].status # "processing")

\* C19: Run on a ledger with no pending job returns at once and changes
\* nothing: no job, list, statistic, active-task entry or the ledger file is
\* modified, no task is made and no generator call; what it returns depends
\* on the ledger alone, so a second call returns the same.
C19_RunWithoutPendingChangesNothing ==
    [][\A ar \in BOOLEAN :
          /\ \A i \in 1..Len(jobs) : job[jobs[i]].status # "pending"
          /\ RunBegin(ar)
          => /\ outcome'.raised = "none"
             /\ outcome'.report =
                  [NoReport EXCEPT !.message = IF jobs' = <<>>
                                               THEN "No jobs to process"
                                               ELSE "No pending jobs to process"]
             /\ UNCHANGED <<job, jobs, completed_jobs, failed_jobs, stats,
                            active_jobs, disk, clock, runPc, tasks, sem, ready,
                            tpc, attempts>>]_vars

\* C19 happens: process_batch has returned its message on a processor whose
\* pending list holds a failed job and whose other lists hold a job too.
C19_Witness ==
    /\ outcome.op = "process_batch"
    /\ outcome.report.message = "No pending jobs to process"
    /\ runPc = "idle"
    /\ \E j \in Range(jobs) : job[j].status = "failed"
    /\ completed_jobs \o failed_jobs # <<>>

\* C20: a job cancelled with remove_job while pending, before Run is called,
\* does not appear in that Run's report: when process_batch has returned a
\* report, a cancelled job that never started and that the run made no task
\* for is counted in none of the report's figures.
C20_RemovedBeforeRunNotReported ==
    outcome.op = "process_batch" /\ outcome.report.message = "report"
        => \A j \in Range(failed_jobs) :
              /\ job[j].status = "cancelled"
              /\ ~job[j].started
              /\ attempts[j] = 0
              => j \notin outcome.report.counted

\* C21: the counts get_queue_status returns (total, pending, processing,
\* completed, failed, cancelled) equal the number of ledger jobs that have
\* that status now, whatever add_job, remove_job and runs came before.
C21_CountsMatchLedger ==
    LET q == QueueStatus(job, jobs, completed_jobs, failed_jobs)
        n(st) == Cardinality({j \in Listed : job[j].status = st})
    IN  /\ q.total_jobs = Cardinality(Listed)
        /\ q.pending = n("pending")
        /\ q.processing = n("processing")
        /\ q.completed = n("completed")
        /\ q.failed = n("failed")
        /\ q.cancelled = n("cancelled")

\* C22: every job in a terminal state has exactly one of result and
\* error_message set: a completed job has a result and no error_message, a
\* failed or cancelled job has an error_message and no result.
C22_ResultXorError ==
    \A j \in AllJobs :
        /\ job[j].status = "completed"
              => job[j].result /\ ~job[j].error_message
        /\ job[j].status \in {"failed", "cancelled"}
              => job[j].error_message /\ ~job[j].result

\* C23: every status transition of a job (start, completion, failure,
\* requeue for retry, cancellation) invokes a registered callback with the
\* job, and the complete or fail callback of an attempt comes after that
\* attempt's start callback.
C23_CallbackOnEveryTransition ==
    [][\A j \in 1..Len(job) :
          /\ job'[j].status # job[j].status
                => callbacks'[j] =
                      CASE job'[j].status = "processing" -> "start"
                        [] job'[j].status = "completed" -> "complete"
                        [] job'[j].status = "failed" -> "fail"
                        [] job'[j].status = "pending" -> "retry"
                        [] job'[j].status = "cancelled" -> "cancel"
          /\ callbacks'[j] # callbacks[j] /\ callbacks'[j] \in {"complete", "fail"}
                => callbacks[j] = "start"]_vars

\* C24: clear_queue(status) removes exactly the ledger jobs whose status
\* equals the filter; clear_queue() with no filter removes every job and
\* resets the statistics to zero; an unrecognised filter changes nothing.
C24_ClearQueueRemovesExactly ==
    [][\A filter \in Filters :
          clear_queue(filter) =>
             CASE filter \in {"pending", "failed", "completed"} ->
                     Listed' = {j \in Listed : job[j].status # filter}
               [] filter = "all" ->
                     Listed' = {} /\ stats' = NoStats
               [] OTHER ->
                     UNCHANGED <<job, jobs, completed_jobs, failed_jobs, stats, disk>>]_vars

\* C25: add_job with a model the cost calculator does not know is admitted
\* with estimated_cost 0: the call raises nothing, and the new job is in the
\* queue, pending, with an estimated cost of 0.
C25_UnknownModelAdmittedAtZeroCost ==
    [][\A p \in Priorities, now \in {clock, clock + 1} :
          add_job(TRUE, <<" ", "a">>, p, "unknown", "json", now) =>
              /\ "error" \in DOMAIN calculate_cost("unknown", DefaultDuration)
              /\ outcome'.raised = "none"
              /\ Len(job') = Len(job) + 1
              /\ Len(job') \in Range(jobs')
              /\ job'[Len(job')].status = "pending"
              /\ job'[Len(job')].estimated_cost = 0]_vars

\* A job of a model without a price is in the queue at cost 0, next to a job
\* of a priced model at its price.
C25_Witness ==
    \E j, k \in Range(jobs) :
        /\ job[j].model = "unknown" /\ job[j].estimated_cost = 0
        /\ job[k].model = "known" /\ job[k].estimated_cost = 25

\* C26: after start() on a tracker that has stages and on which next_stage
\* was never called, the tracker's current stage is stage 0, and
\* update_current_stage(p, msg) with 0 < p < 1 then records p on that stage,
\* which puts the overall progress strictly between 0 and 1.
C26_StartGivesCurrentStage ==
    [][/\ start /\ stages # <<>> /\ current_stage_index = -1 =>
              current_stage_index' = 0
       /\ \A progress \in ProgressValues, message \in Messages :
              /\ update_current_stage(progress, message)
              /\ stages # <<>> /\ overall_status = "running"
              /\ current_stage_index < 1
              /\ 0 < progress /\ progress < 100
              => /\ current_stage_index = 0
                 /\ StageAt(stages', 0).progress = progress
                 /\ 0 < OverallProgress(stages')
                 /\ OverallProgress(stages') < 100]_vars

\* C30: the tracker's current stage index never decreases.  Moving to a named
\* stage at or before the current one changes nothing; moving to a later
\* stage makes it the current stage, leaves the stage that was current and
\* every stage skipped `completed`, and leaves the target the only `active`
\* stage.
C30_StageIndexNeverDecreases ==
    [][/\ current_stage_index' >= current_stage_index
       /\ \A name \in StageNames \cup {"download"} :
              move_to_stage(name) =>
                  LET target == TargetIndex(stages, name)
                      indices == 0..(Len(stages) - 1)
                  IN  IF target <= current_stage_index
                      THEN UNCHANGED trackerVars
                      ELSE /\ current_stage_index' = target
                           /\ \A i \in indices :
                                  /\ current_stage_index <= i /\ i < target =>
                                         StageAt(stages', i).status = "completed"
                                  /\ StageAt(stages', i).status = "active" <=> i = target]_vars

\* A tracker has skipped a stage forward from a current stage: the stage it
\* left and the stage it skipped are completed, the target is active.
C30_Witness ==
    /\ Len(stages) = 3
    /\ current_stage_index = 2
    /\ StageAt(stages, 0).status = "completed" /\ StageAt(stages, 0).progress = 100
    /\ StageAt(stages, 0).message = "m"
    /\ StageAt(stages, 1).status = "completed" /\ StageAt(stages, 1).message = ""
    /\ StageAt(stages, 2).status = "active"
    /\ overall_status = "failed"

\* C27: a job's task holds a worker slot only while an execution attempt of
\* the job runs, and one slot at most: a task in its retry backoff, or one
\* entering _process_single_job for the retried attempt, holds none.
C27_SlotHeldOnlyDuringAttempt ==
    \A j \in JobIds :
        /\ depth[j] <= 1
        /\ depth[j] > 0 =>
               tpc[j] \in {"call", "gen", "resume_ok", "resume_err", "failed",
                           "cancelling"}

\* C29: the backoff sleep before a retried attempt lasts 1 s * 2^retry_count
\* (retry_count as job.retry() has just incremented it) and never more than
\* the cap of 30 s, whatever the job's max_retries.
C29_BackoffCapped ==
    \A j \in 1..Len(job) :
        tpc[j] = "sleep" =>
            /\ retry_delay[j] = 2 ^ job[j].retry_count
            /\ retry_delay[j] <= 30

\* C28: no job is executed by two workers at once: a run has at most one
\* task for a job, so one attempt of it at a time, and a job's status becomes
\* `processing` only from `pending`.
C28_ProcessingOnlyFromPending ==
    [][/\ \A a, b \in 1..Len(tasks') : tasks'[a] = tasks'[b] => a = b
       /\ \A j \in 1..Len(job) :
              job'[j].status = "processing" /\ job[j].status # "processing" =>
                  job[j].status = "pending"]_vars

=============================================================================
